---- MODULE Spec2Model ----
(***************************************************************************)
(* Model of olist/order.py: the Order class, which derives per-order       *)
(* feature tables from the Olist csv tables and joins them into a training *)
(* table.                                                                  *)
(*                                                                         *)
(* A DataFrame is a sequence of rows; a row is a record from column names  *)
(* to cells.  A cell is <<>> when the value is missing (NaN / NaT) and     *)
(* <<v>> or <<tag, v>> when it is present, so that every column can hold a *)
(* missing value, as a column read by pandas.read_csv can.                 *)
(*                                                                         *)
(* self.data maps table names to DataFrame objects.  The methods work on   *)
(* references to objects of a heap, so that a write through a reference    *)
(* that aliases a table of self.data changes that table.                   *)
(***************************************************************************)
EXTENDS Integers, Sequences, FiniteSets, TLC

VARIABLES data, call, ret

vars == <<data, call, ret>>

(***************************************************************************)
(* Bounds of the model.                                                    *)
(***************************************************************************)
MaxOrders == 2

MaxItems == 3

MaxReviews == 2

MaxGeo == 2

(***************************************************************************)
(* Cells.                                                                  *)
(***************************************************************************)
NaN == <<>>

isna(c) == Len(c) = 0

Val(c) == c[Len(c)]

Str(s) == <<"str", s>>

Timestamp(d) == <<"ts", d>>

Num(n) == <<n>>

(***************************************************************************)
(* The keys of the tables, in the order a sort puts them.                  *)
(***************************************************************************)
OrderIdSeq == <<"o1", "o2", "o3", "o4">>

TableNames ==
  {"orders", "order_reviews", "order_items", "sellers", "customers", "geolocation"}

RECURSIVE SeqSum(_)
SeqSum(s) == IF s = <<>> THEN 0 ELSE Head(s) + SeqSum(Tail(s))

RECURSIVE Concat(_)
Concat(ss) == IF ss = <<>> THEN <<>> ELSE Head(ss) \o Concat(Tail(ss))

Map(s, F(_)) == [i \in 1..Len(s) |-> F(s[i])]

(***************************************************************************)
(* DataFrame.copy(): a new object with the same rows; the reference the    *)
(* caller holds afterwards is the new object.                              *)
(***************************************************************************)
(* Variant: no copy is made, the caller keeps the reference it had. *)
df_copy_alias(h, ref, new) == [heap |-> h, ref |-> ref]

df_copy(h, ref, new) == [heap |-> (new :> h[ref]) @@ h, ref |-> new]

(***************************************************************************)
(* DataFrame.query("order_status == 'delivered'"): a new object holding    *)
(* the rows whose status is present and equal to 'delivered'.              *)
(***************************************************************************)
is_delivered_row(r) == r.order_status = Str("delivered")

(* Variant: the query keeps every row. *)
query_delivered_all(h, ref, new) == [heap |-> (new :> h[ref]) @@ h, ref |-> new]

query_delivered(h, ref, new) ==
  [heap |-> (new :> SelectSeq(h[ref], is_delivered_row)) @@ h, ref |-> new]

(***************************************************************************)
(* pd.to_datetime on one value: a missing value becomes NaT, a date string *)
(* becomes its timestamp (counted here in days since 2018-01-01), a value  *)
(* that is already a timestamp is kept, any other string raises           *)
(* (errors="raise" is the default).                                        *)
(***************************************************************************)
ParseDate ==
  [s \in {"2018-01-01", "2018-01-05", "2018-01-06", "2018-01-09"} |->
     CASE s = "2018-01-01" -> 0
       [] s = "2018-01-05" -> 4
       [] s = "2018-01-06" -> 5
       [] s = "2018-01-09" -> 8]

DateParseError == <<"raise", "DateParseError">>

(* Variant: pd.to_datetime(..., errors="coerce"), an unparseable string    *)
(* becomes NaT.                                                            *)
to_datetime_coerce(c) ==
  IF isna(c) THEN NaN
  ELSE IF c[1] = "ts" THEN c
  ELSE IF c[2] \in DOMAIN ParseDate THEN Timestamp(ParseDate[c[2]])
  ELSE NaN

to_datetime(c) ==
  IF isna(c) THEN NaN
  ELSE IF c[1] = "ts" THEN c
  ELSE IF c[2] \in DOMAIN ParseDate THEN Timestamp(ParseDate[c[2]])
  ELSE DateParseError

datetime_columns ==
  {"order_purchase_timestamp", "order_approved_at", "order_delivered_carrier_date",
   "order_delivered_customer_date", "order_estimated_delivery_date"}

(* orders[datetime_columns].apply(pd.to_datetime) raises when a value of   *)
(* one of the five columns cannot be parsed.                               *)
to_datetime_raises(rows) ==
  \E i \in 1..Len(rows) :
    \E col \in datetime_columns : to_datetime(rows[i][col]) = DateParseError

parse_row(r) ==
  [col \in DOMAIN r |-> IF col \in datetime_columns THEN to_datetime(r[col]) ELSE r[col]]

(* (series1 - series2) / pd.Timedelta(days=1), one row. *)
calc_day_delta(c1, c2) == IF isna(c1) \/ isna(c2) THEN NaN ELSE Num(Val(c1) - Val(c2))

(* series1 - series2 on float columns, one row. *)
float_sub(c1, c2) == IF isna(c1) \/ isna(c2) THEN NaN ELSE Num(Val(c1) - Val(c2))

(* np.maximum(x, 0), one row: NaN propagates. *)
(* Variant: the difference is not clamped. *)
np_maximum_0_unclamped(c) == c

np_maximum_0(c) == IF isna(c) THEN NaN ELSE IF Val(c) > 0 THEN c ELSE Num(0)

add_wait_times(r) ==
  LET wait_time ==
        calc_day_delta(r.order_delivered_customer_date, r.order_purchase_timestamp)
      expected_wait_time ==
        calc_day_delta(r.order_estimated_delivery_date, r.order_purchase_timestamp)
  IN  ("wait_time" :> wait_time) @@ ("expected_wait_time" :> expected_wait_time)
        @@ ("delay_vs_expected" :> np_maximum_0(float_sub(wait_time, expected_wait_time)))
        @@ r

wait_time_columns ==
  {"order_id", "wait_time", "expected_wait_time", "delay_vs_expected", "order_status"}

project(r, cols) == [col \in cols |-> r[col]]

Raised(h, e) == [heap |-> h, ret |-> [raised |-> e]]

Returned(h, rows) == [heap |-> h, ret |-> [rows |-> rows]]

(***************************************************************************)
(* Order.get_wait_time(is_delivered), on heap h.  The result is the heap   *)
(* after the call and what the call returns or raises.                     *)
(***************************************************************************)
get_wait_time(h, is_delivered) ==
  LET c1 == df_copy(h, "orders", "orders_copy")
      c2 == IF is_delivered
              THEN LET q == query_delivered(c1.heap, c1.ref, "orders_query")
                   IN  df_copy(q.heap, q.ref, "orders_delivered")
              ELSE c1
      orders == c2.ref
      h2 == c2.heap
  IN  IF to_datetime_raises(h2[orders])
        THEN Raised(h2, DateParseError[2])
        ELSE LET h3 == [h2 EXCEPT ![orders] = Map(h2[orders], parse_row)]
                 h4 == [h3 EXCEPT ![orders] = Map(h3[orders], add_wait_times)]
                 keep(r) == project(r, wait_time_columns)
             IN  Returned(h4, Map(h4[orders], keep))

self_data(h) == [t \in TableNames |-> h[t]]

Call_get_wait_time ==
  \E is_delivered \in BOOLEAN :
    LET res == get_wait_time(data, is_delivered)
    IN  /\ data' = self_data(res.heap)
        /\ call' = [op |-> "get_wait_time", is_delivered |-> is_delivered]
        /\ ret' = res.ret

(***************************************************************************)
(* Order.get_review_score(): the two dummy columns are written into a copy *)
(* of order_reviews; a missing score compares unequal to 5 and to 1.       *)
(***************************************************************************)
add_review_dims(r) ==
  ("dim_is_five_star" :> Num(IF r.review_score = Num(5) THEN 1 ELSE 0))
    @@ ("dim_is_one_star" :> Num(IF r.review_score = Num(1) THEN 1 ELSE 0))
    @@ r

review_columns == {"order_id", "dim_is_five_star", "dim_is_one_star", "review_score"}

get_review_score(h) ==
  LET c1 == df_copy(h, "order_reviews", "reviews_copy")
      reviews == c1.ref
      h2 == [c1.heap EXCEPT ![reviews] = Map(c1.heap[reviews], add_review_dims)]
      keep(r) == project(r, review_columns)
  IN  Returned(h2, Map(h2[reviews], keep))

(***************************************************************************)
(* DataFrame.groupby(col): one group per present value of the column, the  *)
(* groups in sorted key order (keys_sorted lists the key universe in that  *)
(* order); rows whose key is missing belong to no group.                   *)
(***************************************************************************)
groupby_keys(rows, col, keys_sorted) ==
  SelectSeq(keys_sorted, LAMBDA k : \E i \in 1..Len(rows) : rows[i][col] = k)

group_rows(rows, col, k) == SelectSeq(rows, LAMBDA r : r[col] = k)

OrderKeys == [i \in 1..Len(OrderIdSeq) |-> Str(OrderIdSeq[i])]

(* SeriesGroupBy.count(): the number of present values. *)
(* Variants: GroupBy.size(), the number of rows; nunique(), the number of  *)
(* distinct present values.                                                *)
count_rows(g, col) == Len(g)

count_distinct(g, col) == Cardinality({g[i][col] : i \in 1..Len(g)} \ {NaN})

count(g, col) == Len(SelectSeq(g, LAMBDA r : ~isna(r[col])))

(* SeriesGroupBy.nunique(): the number of distinct present values. *)
nunique(g, col) == Cardinality({g[i][col] : i \in 1..Len(g)} \ {NaN})

(* GroupBy.sum(): the sum of the present values, 0 when there is none. *)
sum(g, col) ==
  Num(SeqSum(Map(SelectSeq(g, LAMBDA r : ~isna(r[col])), LAMBDA r : Val(r[col]))))

(***************************************************************************)
(* Order.get_number_items, get_number_sellers, get_price_and_freight.      *)
(***************************************************************************)
get_number_items(h) ==
  LET c1 == df_copy(h, "order_items", "order_items_copy")
      order_items == c1.heap[c1.ref]
      agg(k) == [order_id |-> k,
                 number_of_items |-> Num(count(group_rows(order_items, "order_id", k),
                                               "order_item_id"))]
  IN  Returned(c1.heap, Map(groupby_keys(order_items, "order_id", OrderKeys), agg))

get_number_sellers(h) ==
  LET c1 == df_copy(h, "order_items", "order_items_copy")
      order_items == c1.heap[c1.ref]
      agg(k) == [order_id |-> k,
                 number_of_sellers |-> Num(nunique(group_rows(order_items, "order_id", k),
                                                   "seller_id"))]
  IN  Returned(c1.heap, Map(groupby_keys(order_items, "order_id", OrderKeys), agg))

get_price_and_freight(h) ==
  LET c1 == df_copy(h, "order_items", "order_items_copy")
      order_items == c1.heap[c1.ref]
      agg(k) == LET g == group_rows(order_items, "order_id", k)
                IN  [order_id |-> k, price |-> sum(g, "price"),
                     freight_value |-> sum(g, "freight_value")]
  IN  Returned(c1.heap, Map(groupby_keys(order_items, "order_id", OrderKeys), agg))

(***************************************************************************)
(* DataFrame.merge(right, on=key, how=..., suffixes=(sl, sr)): for each    *)
(* row of the left table in order, one row per row of the right table with *)
(* an equal key (missing keys are equal to each other); the columns the    *)
(* two tables share besides the key get the suffixes.  A left merge keeps  *)
(* a left row without a match, with the right columns missing.             *)
(***************************************************************************)
rename(r, cols, suffix) ==
  LET name(c) == IF c \in cols THEN c \o suffix ELSE c
  IN  [n \in {name(c) : c \in DOMAIN r} |-> r[CHOOSE c \in DOMAIN r : name(c) = n]]

merged_row(l, r, key, sl, sr) ==
  LET both == (DOMAIN l \cap DOMAIN r) \ {key}
  IN  IF both = {} THEN l @@ r
      ELSE rename(l, both, sl) @@ rename([c \in DOMAIN r \ {key} |-> r[c]], both, sr)

matches(l, right, key) == SelectSeq(right, LAMBDA r : r[key] = l[key])

merge_left_on(left, right, left_on, right_on, right_cols) ==
  LET none == [c \in right_cols |-> NaN]
      found(l) == SelectSeq(right, LAMBDA r : r[right_on] = l[left_on])
      one(l) == IF found(l) = <<>> THEN <<l @@ none>>
                                   ELSE Map(found(l), LAMBDA r : l @@ r)
  IN  Concat(Map(left, one))

merge_suffixes(left, right, key, sl, sr) ==
  LET one(l) == Map(matches(l, right, key), LAMBDA r : merged_row(l, r, key, sl, sr))
  IN  Concat(Map(left, one))

merge(left, right, key) == merge_suffixes(left, right, key, "_x", "_y")

(* DataFrame.dropna(): the rows without a missing value in any column. *)
(* Variant: no row is dropped. *)
dropna_none(rows) == rows

dropna(rows) == SelectSeq(rows, LAMBDA r : \A c \in DOMAIN r : ~isna(r[c]))

(***************************************************************************)
(* geo.groupby("geolocation_zip_code_prefix", as_index=False).first():     *)
(* GroupBy.first() takes, for each column on its own, the first present    *)
(* value of the group (missing when the group has none).                   *)
(***************************************************************************)
ZipKeys == <<Num(1), Num(2), Num(3)>>

first(g, col) ==
  LET present == SelectSeq(g, LAMBDA r : ~isna(r[col]))
  IN  IF present = <<>> THEN NaN ELSE present[1][col]

geo_columns == {"geolocation_zip_code_prefix", "geolocation_lat", "geolocation_lng"}

geo_first(geolocation) ==
  LET agg(k) == LET g == group_rows(geolocation, "geolocation_zip_code_prefix", k)
                IN  [geolocation_zip_code_prefix |-> k,
                     geolocation_lat |-> first(g, "geolocation_lat"),
                     geolocation_lng |-> first(g, "geolocation_lng")]
  IN  Map(groupby_keys(geolocation, "geolocation_zip_code_prefix", ZipKeys), agg)

(***************************************************************************)
(* olist.utils.haversine_distance(lon1, lat1, lon2, lat2): the great       *)
(* circle distance on a sphere of radius 6371 km, here in whole km and for *)
(* coordinates of 0 or 1 degree: 111 km for one degree of latitude or of   *)
(* longitude, 157 km for one degree of both.  A missing coordinate gives a *)
(* missing distance.                                                       *)
(***************************************************************************)
haversine_distance(lon1, lat1, lon2, lat2) ==
  IF isna(lon1) \/ isna(lat1) \/ isna(lon2) \/ isna(lat2) THEN NaN
  ELSE IF lon1 # lon2 /\ lat1 # lat2 THEN Num(157)
  ELSE IF lon1 # lon2 \/ lat1 # lat2 THEN Num(111)
  ELSE Num(0)

RECURSIVE GCD(_, _)
GCD(a, b) == IF b = 0 THEN a ELSE GCD(b, a % b)

(* A quotient n / d, d > 0, n >= 0, in lowest terms. *)
Fraction(n, d) == <<n \div GCD(n, d), d \div GCD(n, d)>>

(* GroupBy.agg "mean": the sum of the present values over their number. *)
(* Variant: the mean of the distinct present values. *)
mean_of_distinct(g, col) ==
  LET vals == {Val(g[i][col]) : i \in {j \in 1..Len(g) : ~isna(g[j][col])}}
      RECURSIVE SetSum(_)
      SetSum(S) == IF S = {} THEN 0 ELSE LET x == CHOOSE x \in S : TRUE
                                         IN  x + SetSum(S \ {x})
  IN  IF vals = {} THEN NaN ELSE Num(Fraction(SetSum(vals), Cardinality(vals)))

mean(g, col) ==
  LET present == SelectSeq(g, LAMBDA r : ~isna(r[col]))
  IN  IF present = <<>> THEN NaN
      ELSE Num(Fraction(SeqSum(Map(present, LAMBDA r : Val(r[col]))), Len(present)))

sellers_mask_columns ==
  {"seller_id", "seller_zip_code_prefix", "geolocation_lat", "geolocation_lng"}

customers_mask_columns ==
  {"customer_id", "customer_zip_code_prefix", "geolocation_lat", "geolocation_lng"}

customers_sellers_columns ==
  {"order_id", "customer_id", "customer_zip_code_prefix", "seller_id",
   "seller_zip_code_prefix"}

add_distance(r) ==
  ("distance_seller_customer" :>
     haversine_distance(r.geolocation_lng_seller, r.geolocation_lat_seller,
                        r.geolocation_lng_customer, r.geolocation_lat_customer)) @@ r

(***************************************************************************)
(* Order.get_distance_seller_customer(): reads the tables of self.data     *)
(* without copying them; every table it writes to is the result of a merge *)
(* or of dropna, a new object.                                             *)
(***************************************************************************)
matching_geo_of(h) ==
  LET orders == h["orders"]
      order_items == h["order_items"]
      sellers == h["sellers"]
      customers == h["customers"]
      geo == geo_first(h["geolocation"])
      keep_s(r) == project(r, sellers_mask_columns)
      keep_c(r) == project(r, customers_mask_columns)
      keep_cs(r) == project(r, customers_sellers_columns)
      sellers_geo ==
        Map(merge_left_on(sellers, geo, "seller_zip_code_prefix",
                          "geolocation_zip_code_prefix", geo_columns), keep_s)
      customers_geo ==
        Map(merge_left_on(customers, geo, "customer_zip_code_prefix",
                          "geolocation_zip_code_prefix", geo_columns), keep_c)
      customers_sellers ==
        Map(merge(merge(merge(customers, orders, "customer_id"),
                        order_items, "order_id"),
                  sellers, "seller_id"), keep_cs)
  IN  merge_suffixes(merge(customers_sellers, sellers_geo, "seller_id"),
                     customers_geo, "customer_id", "_seller", "_customer")

get_distance_seller_customer(h) ==
  LET matching_geo == Map(dropna(matching_geo_of(h)), add_distance)
      agg(k) == [order_id |-> k,
                 distance_seller_customer |->
                   mean(group_rows(matching_geo, "order_id", k),
                        "distance_seller_customer")]
  IN  Returned(h, Map(groupby_keys(matching_geo, "order_id", OrderKeys), agg))

(***************************************************************************)
(* Order.get_training_data(is_delivered, with_distance_seller_customer).   *)
(* An exception of get_wait_time ends the call.                            *)
(***************************************************************************)
merge_all(training_data, dfs_to_merge) ==
  LET RECURSIVE loop(_, _)
      loop(t, dfs) == IF dfs = <<>> THEN t
                      ELSE loop(merge(t, Head(dfs), "order_id"), Tail(dfs))
  IN  loop(training_data, dfs_to_merge)

get_training_data(h, is_delivered, with_distance_seller_customer) ==
  LET wait_time == get_wait_time(h, is_delivered)
      review_score == get_review_score(wait_time.heap)
      number_items == get_number_items(review_score.heap)
      number_sellers == get_number_sellers(number_items.heap)
      price_and_freight == get_price_and_freight(number_sellers.heap)
      merged == merge_all(wait_time.ret.rows,
                          <<review_score.ret.rows, number_items.ret.rows,
                            number_sellers.ret.rows, price_and_freight.ret.rows>>)
      distance == get_distance_seller_customer(price_and_freight.heap)
  IN  IF "raised" \in DOMAIN wait_time.ret
        THEN wait_time
        ELSE IF with_distance_seller_customer
               THEN Returned(distance.heap,
                             dropna(merge(merged, distance.ret.rows, "order_id")))
               ELSE Returned(price_and_freight.heap, dropna(merged))

Call_get_review_score ==
  LET res == get_review_score(data)
  IN  /\ data' = self_data(res.heap)
      /\ call' = [op |-> "get_review_score"]
      /\ ret' = res.ret

Call_get_number_items ==
  LET res == get_number_items(data)
  IN  /\ data' = self_data(res.heap)
      /\ call' = [op |-> "get_number_items"]
      /\ ret' = res.ret

Call_get_number_sellers ==
  LET res == get_number_sellers(data)
  IN  /\ data' = self_data(res.heap)
      /\ call' = [op |-> "get_number_sellers"]
      /\ ret' = res.ret

Call_get_price_and_freight ==
  LET res == get_price_and_freight(data)
  IN  /\ data' = self_data(res.heap)
      /\ call' = [op |-> "get_price_and_freight"]
      /\ ret' = res.ret

Call_get_distance_seller_customer ==
  LET res == get_distance_seller_customer(data)
  IN  /\ data' = self_data(res.heap)
      /\ call' = [op |-> "get_distance_seller_customer"]
      /\ ret' = res.ret

Call_get_training_data ==
  \E is_delivered \in BOOLEAN, with_distance \in BOOLEAN :
    LET res == get_training_data(data, is_delivered, with_distance)
    IN  /\ data' = self_data(res.heap)
        /\ call' = [op |-> "get_training_data", is_delivered |-> is_delivered,
                    with_distance_seller_customer |-> with_distance]
        /\ ret' = res.ret

(***************************************************************************)
(* The tables an Order instance is constructed on.                         *)
(***************************************************************************)
order_row(id, cust, status, purchase, approved, carrier, delivered, estimated) ==
  [order_id |-> id, customer_id |-> cust, order_status |-> status,
   order_purchase_timestamp |-> purchase, order_approved_at |-> approved,
   order_delivered_carrier_date |-> carrier,
   order_delivered_customer_date |-> delivered,
   order_estimated_delivery_date |-> estimated]

EmptyData == [t \in TableNames |-> <<>>]

NoCall == [op |-> "__init__"]

NoRet == [none |-> TRUE]

(* SpecWait: any orders table of up to MaxOrders rows; a delivered order   *)
(* has a purchase and an estimated date that are present or missing and a  *)
(* delivery date that is missing, early, late or unparseable, or, with the *)
(* other dates present, an unparseable approval date; a canceled order has *)
(* a delivery date that is missing, present or unparseable; an order       *)
(* without a status has all its dates.                                     *)
WaitOrderAttrs ==
  [status : {Str("delivered")},
   purchase : {NaN, Str("2018-01-01")},
   delivered : {NaN, Str("2018-01-05"), Str("2018-01-09"), Str("not a date")},
   estimated : {NaN, Str("2018-01-06")},
   approved : {NaN}]
  \cup
  [status : {Str("delivered")},
   purchase : {Str("2018-01-01")},
   delivered : {Str("2018-01-05")},
   estimated : {Str("2018-01-06")},
   approved : {Str("not a date")}]
  \cup
  [status : {Str("canceled")},
   purchase : {Str("2018-01-01")},
   delivered : {NaN, Str("2018-01-09"), Str("not a date")},
   estimated : {Str("2018-01-06")},
   approved : {NaN}]
  \cup
  [status : {NaN},
   purchase : {Str("2018-01-01")},
   delivered : {Str("2018-01-09")},
   estimated : {Str("2018-01-06")},
   approved : {NaN}]

WaitOrdersTables(n) ==
  UNION {{[i \in 1..k |->
             order_row(Str(OrderIdSeq[i]), Str("c1"), f[i].status, f[i].purchase,
                       f[i].approved, NaN, f[i].delivered, f[i].estimated)] :
            f \in [1..k -> WaitOrderAttrs]} : k \in 0..n}

InitWait ==
  /\ data \in {[EmptyData EXCEPT !["orders"] = t] : t \in WaitOrdersTables(MaxOrders)}
  /\ call = NoCall
  /\ ret = NoRet

NextWait == Call_get_wait_time

SpecWait == InitWait /\ [][NextWait]_vars

item_row(order, item, seller, price, freight) ==
  [order_id |-> order, order_item_id |-> item, seller_id |-> seller,
   price |-> price, freight_value |-> freight]

review_row(order, score) == [order_id |-> order, review_score |-> score]

seller_row(id, zip) == [seller_id |-> id, seller_zip_code_prefix |-> zip]

customer_row(id, zip) == [customer_id |-> id, customer_zip_code_prefix |-> zip]

geo_row(zip, lat, lng) ==
  [geolocation_zip_code_prefix |-> zip, geolocation_lat |-> lat, geolocation_lng |-> lng]

SeqsUpTo(S, n) == UNION {[1..k -> S] : k \in 0..n}

(* Two customers and two sellers, each in a zip code area of its own; two  *)
(* delivered orders, one per customer.                                     *)
Customers == <<customer_row(Str("c1"), Num(1)), customer_row(Str("c2"), Num(2))>>

Sellers == <<seller_row(Str("s1"), Num(1)), seller_row(Str("s2"), Num(2))>>

delivered_order(id, cust) ==
  order_row(Str(id), Str(cust), Str("delivered"), Str("2018-01-01"), Str("2018-01-01"),
            Str("2018-01-05"), Str("2018-01-05"), Str("2018-01-06"))

Orders == <<delivered_order("o1", "c1"), delivered_order("o2", "c2")>>

Geolocation == <<geo_row(Num(1), Num(0), Num(0)), geo_row(Num(2), Num(0), Num(1))>>

BaseData ==
  [orders |-> Orders, order_reviews |-> <<>>, order_items |-> <<>>,
   sellers |-> Sellers, customers |-> Customers, geolocation |-> Geolocation]

(* SpecItems: any order_items table of up to MaxItems rows; a row is of    *)
(* one of two orders and two sellers, with or without an order_item_id, or *)
(* misses its order_id or its seller_id.                                   *)
ItemRows ==
  {item_row(o, i, s, Num(10), Num(5)) :
     o \in {Str("o1"), Str("o2")}, i \in {NaN, Num(1)}, s \in {Str("s1"), Str("s2")}}
  \cup {item_row(NaN, Num(1), Str("s1"), Num(10), Num(5)),
        item_row(Str("o1"), Num(1), NaN, Num(10), Num(5))}

InitItems ==
  /\ data \in {[BaseData EXCEPT !["order_items"] = t] : t \in SeqsUpTo(ItemRows, MaxItems)}
  /\ call = NoCall
  /\ ret = NoRet

NextItems ==
  \/ Call_get_number_items
  \/ Call_get_number_sellers
  \/ Call_get_price_and_freight

SpecItems == InitItems /\ [][NextItems]_vars

(* SpecGeo: any geolocation table of up to MaxGeo rows. *)
GeoRows ==
  {geo_row(z, lat, lng) :
     z \in {Num(1), Num(2)}, lat \in {NaN, Num(0), Num(1)}, lng \in {NaN, Num(0), Num(1)}}

ItemLines ==
  {item_row(Str(o), Num(1), Str(s), Num(10), Num(5)) : o \in {"o1", "o2"}, s \in {"s1", "s2"}}

InitGeo ==
  /\ data \in {[BaseData EXCEPT !["geolocation"] = g,
                                !["order_items"] =
                                  <<item_row(Str("o1"), Num(1), Str("s2"), Num(10), Num(5)),
                                    item_row(Str("o2"), Num(1), Str("s1"), Num(10), Num(5))>>] :
                 g \in SeqsUpTo(GeoRows, MaxGeo)}
  /\ call = NoCall
  /\ ret = NoRet

NextGeo == Call_get_distance_seller_customer

SpecGeo == InitGeo /\ [][NextGeo]_vars

(* SpecDist: any order_items table of up to MaxItems lines of the two      *)
(* orders and the two sellers, or of the first order without a seller_id;  *)
(* a geolocation table that knows both zip code areas, only the first, or  *)
(* the second without a longitude; a sellers table as it is, with a        *)
(* repeated row, or with a row without a seller_id.                        *)
DistGeoTables ==
  {Geolocation,
   <<geo_row(Num(1), Num(0), Num(0))>>,
   <<geo_row(Num(1), Num(1), Num(1)), geo_row(Num(2), Num(0), NaN)>>}

DistSellersTables ==
  {Sellers, <<Sellers[1], Sellers[1], Sellers[2]>>,
   <<Sellers[1], Sellers[2], seller_row(NaN, Num(2))>>}

DistItemLines == ItemLines \cup {item_row(Str("o1"), Num(1), NaN, Num(10), Num(5))}

InitDist ==
  /\ data \in {[BaseData EXCEPT !["order_items"] = t, !["geolocation"] = g,
                                !["sellers"] = s] :
                 t \in SeqsUpTo(DistItemLines, MaxItems), g \in DistGeoTables,
                 s \in DistSellersTables}
  /\ call = NoCall
  /\ ret = NoRet

NextDist == Call_get_distance_seller_customer

SpecDist == InitDist /\ [][NextDist]_vars

(* Spec: two orders, the second delivered, the first delivered with or     *)
(* without a delivery date, or canceled; any                               *)
(* order_reviews table of up to MaxReviews rows; items for both orders in  *)
(* known areas, with the second area unknown, with a missing price, or for *)
(* the first order only.                                                   *)
train_order(id, cust, shape) ==
  order_row(Str(id), Str(cust), shape.status, Str("2018-01-01"), Str("2018-01-01"),
            NaN, shape.delivered, Str("2018-01-06"))

TrainOrderShapes ==
  {[status |-> Str("delivered"), delivered |-> Str("2018-01-09")],
   [status |-> Str("delivered"), delivered |-> NaN],
   [status |-> Str("canceled"), delivered |-> Str("2018-01-05")]}

TrainOrdersTables ==
  {<<train_order("o1", "c1", s1), delivered_order("o2", "c2")>> : s1 \in TrainOrderShapes}

ReviewRows ==
  {review_row(Str("o1"), Num(5)), review_row(Str("o1"), Num(1)),
   review_row(Str("o1"), NaN), review_row(Str("o2"), Num(5))}

ItemsBoth ==
  <<item_row(Str("o1"), Num(1), Str("s1"), Num(10), Num(5)),
    item_row(Str("o1"), Num(2), Str("s2"), Num(20), Num(5)),
    item_row(Str("o2"), Num(1), Str("s2"), Num(10), Num(5))>>

ItemsFirstOnly == <<item_row(Str("o1"), Num(1), Str("s1"), Num(10), Num(5))>>

ItemsNoPrice ==
  <<item_row(Str("o1"), Num(1), Str("s1"), NaN, Num(5)),
    item_row(Str("o2"), Num(1), Str("s1"), Num(10), Num(5)),
    item_row(Str("o2"), Num(2), Str("s1"), Num(10), Num(5))>>

TrainItemsGeo ==
  {[items |-> ItemsBoth, geo |-> Geolocation],
   [items |-> ItemsBoth, geo |-> <<geo_row(Num(1), Num(0), Num(0))>>],
   [items |-> ItemsNoPrice, geo |-> Geolocation],
   [items |-> ItemsFirstOnly, geo |-> Geolocation]}

Init ==
  /\ data \in {[BaseData EXCEPT !["orders"] = o, !["order_reviews"] = r,
                                !["order_items"] = t.items, !["geolocation"] = t.geo] :
                 o \in TrainOrdersTables, r \in SeqsUpTo(ReviewRows, MaxReviews),
                 t \in TrainItemsGeo}
  /\ call = NoCall
  /\ ret = NoRet

Next ==
  \/ Call_get_wait_time
  \/ Call_get_review_score
  \/ Call_get_number_items
  \/ Call_get_number_sellers
  \/ Call_get_price_and_freight
  \/ Call_get_distance_seller_customer
  \/ Call_get_training_data

Spec == Init /\ [][Next]_vars

(***************************************************************************)
(* Claims about get_wait_time, checked under SpecWait.                     *)
(***************************************************************************)
WaitCall == call.op = "get_wait_time"

WaitReturned == WaitCall /\ "rows" \in DOMAIN ret

(* The rows of `orders` that pass the filter of the last get_wait_time call. *)
WaitKept ==
  SelectSeq(data["orders"],
            LAMBDA r : (~call.is_delivered) \/ r.order_status = <<"str", "delivered">>)

Missing(r, cols) == \E col \in cols : r[col] = <<>>

Unparseable(c) == c # <<>> /\ c[1] = "str" /\ c[2] = "not a date"

(* C3, as stated: every row that get_wait_time returns has                 *)
(* delay_vs_expected >= 0.                                                 *)
C3_Original ==
  WaitReturned =>
    \A i \in 1..Len(ret.rows) :
      /\ ret.rows[i].delay_vs_expected # <<>>
      /\ ret.rows[i].delay_vs_expected[1] >= 0

(* C3, amended: every row that get_wait_time returns has a                 *)
(* delay_vs_expected that is missing when its wait_time or its             *)
(* expected_wait_time is missing, and is otherwise                         *)
(* max(wait_time - expected_wait_time, 0), hence >= 0.                     *)
C3_DelayNullOrNonNegative ==
  WaitReturned =>
    \A i \in 1..Len(ret.rows) :
      LET r == ret.rows[i]
          w == r.wait_time
          e == r.expected_wait_time
          d == r.delay_vs_expected
      IN  IF w = <<>> \/ e = <<>>
            THEN d = <<>>
            ELSE /\ d # <<>>
                 /\ d[1] >= 0
                 /\ d[1] >= w[1] - e[1]
                 /\ d[1] \in {0, w[1] - e[1]}

(* A late order (delay 3) and an order delivered early (difference -1,     *)
(* clamped to 0) are both returned.                                        *)
C3_Witness ==
  /\ WaitReturned
  /\ \E i \in 1..Len(ret.rows) : ret.rows[i].delay_vs_expected = <<3>>
  /\ \E i \in 1..Len(ret.rows) :
       /\ ret.rows[i].delay_vs_expected = <<0>>
       /\ ret.rows[i].wait_time = <<4>>
       /\ ret.rows[i].expected_wait_time = <<5>>

(* C5, as stated: a timestamp that is missing or cannot be parsed never    *)
(* aborts get_wait_time.                                                   *)
C5_Original == WaitCall => "rows" \in DOMAIN ret

(* C5, amended: a missing timestamp never aborts get_wait_time: when no    *)
(* row that passes the filter holds an unparseable timestamp, every such   *)
(* row is returned, and its wait_time, expected_wait_time and              *)
(* delay_vs_expected are missing exactly when a timestamp they depend on   *)
(* is missing.  When a row that passes the filter holds a timestamp that   *)
(* cannot be parsed, the call raises.                                      *)
C5_MissingIsNullUnparseableRaises ==
  WaitCall =>
    IF \E i \in 1..Len(WaitKept) :
         \E col \in datetime_columns : Unparseable(WaitKept[i][col])
      THEN "raised" \in DOMAIN ret
      ELSE /\ "rows" \in DOMAIN ret
           /\ Len(ret.rows) = Len(WaitKept)
           /\ \A i \in 1..Len(WaitKept) :
                LET in == WaitKept[i]
                    out == ret.rows[i]
                IN  /\ out.order_id = in.order_id
                    /\ (out.wait_time = <<>>) <=>
                         Missing(in, {"order_delivered_customer_date",
                                      "order_purchase_timestamp"})
                    /\ (out.expected_wait_time = <<>>) <=>
                         Missing(in, {"order_estimated_delivery_date",
                                      "order_purchase_timestamp"})
                    /\ (out.delay_vs_expected = <<>>) <=>
                         Missing(in, {"order_delivered_customer_date",
                                      "order_estimated_delivery_date",
                                      "order_purchase_timestamp"})

(* A call returned a row whose delivery date is missing, with a missing    *)
(* wait_time and a present expected_wait_time.                             *)
C5_Witness ==
  /\ WaitReturned
  /\ \E i \in 1..Len(WaitKept) :
       /\ WaitKept[i].order_delivered_customer_date = <<>>
       /\ ret.rows[i].wait_time = <<>>
       /\ ret.rows[i].expected_wait_time = <<5>>

(***************************************************************************)
(* Claims about the item aggregation, checked under SpecItems.             *)
(***************************************************************************)
ItemsOf(k) == SelectSeq(data["order_items"], LAMBDA r : r.order_id = k)

ItemsCounted(k) ==
  SelectSeq(data["order_items"], LAMBDA r : r.order_id = k /\ r.order_item_id # <<>>)

NumberItemsReturned == call.op = "get_number_items" /\ "rows" \in DOMAIN ret

NumberSellersReturned == call.op = "get_number_sellers" /\ "rows" \in DOMAIN ret

(* C6, as stated: the number_of_items of the returned rows add up to the   *)
(* number of rows of order_items, and each order's number_of_items is the  *)
(* number of its rows.                                                     *)
C6_Original ==
  NumberItemsReturned =>
    /\ SeqSum([i \in 1..Len(ret.rows) |-> ret.rows[i].number_of_items[1]])
         = Len(data["order_items"])
    /\ \A i \in 1..Len(ret.rows) :
         ret.rows[i].number_of_items[1] = Len(ItemsOf(ret.rows[i].order_id))

(* C6, amended: each order's number_of_items is the number of its rows     *)
(* that have an order_item_id, and the number_of_items of the returned     *)
(* rows add up to the number of rows of order_items that have both an      *)
(* order_id and an order_item_id; for a table without a missing order_id   *)
(* or order_item_id these are the number of the order's rows and the       *)
(* number of rows of the table.                                            *)
C6_CountsRowsWithItemId ==
  NumberItemsReturned =>
    /\ SeqSum([i \in 1..Len(ret.rows) |-> ret.rows[i].number_of_items[1]])
         = Len(SelectSeq(data["order_items"],
                         LAMBDA r : r.order_id # <<>> /\ r.order_item_id # <<>>))
    /\ \A i \in 1..Len(ret.rows) :
         /\ ret.rows[i].order_id # <<>>
         /\ ret.rows[i].number_of_items[1] = Len(ItemsCounted(ret.rows[i].order_id))
    /\ (\A j \in 1..Len(data["order_items"]) :
          /\ data["order_items"][j].order_id # <<>>
          /\ data["order_items"][j].order_item_id # <<>>)
       => /\ SeqSum([i \in 1..Len(ret.rows) |-> ret.rows[i].number_of_items[1]])
               = Len(data["order_items"])
          /\ \A i \in 1..Len(ret.rows) :
               ret.rows[i].number_of_items[1] = Len(ItemsOf(ret.rows[i].order_id))

(* Three item rows, all with their ids, of two orders: the counts 2 and 1  *)
(* are returned.                                                           *)
C6_Witness ==
  /\ NumberItemsReturned
  /\ Len(data["order_items"]) = 3
  /\ \A j \in 1..3 : /\ data["order_items"][j].order_id # <<>>
                     /\ data["order_items"][j].order_item_id # <<>>
  /\ Len(ret.rows) = 2
  /\ ret.rows[1].number_of_items = <<2>>
  /\ ret.rows[2].number_of_items = <<1>>

(* The number_of_items get_number_items returns for order k on the tables  *)
(* of the instance.                                                        *)
NumberOfItems(k) ==
  LET rows == get_number_items(data).ret.rows
  IN  rows[CHOOSE i \in 1..Len(rows) : rows[i].order_id = k].number_of_items[1]

(* C7, as stated: for every order of the item aggregation,                 *)
(* number_of_sellers <= number_of_items.                                   *)
C7_Original ==
  NumberSellersReturned =>
    \A i \in 1..Len(ret.rows) :
      ret.rows[i].number_of_sellers[1] <= NumberOfItems(ret.rows[i].order_id)

(* C7, amended: the item aggregations produce the same orders, and for     *)
(* every order whose item rows all have an order_item_id,                  *)
(* number_of_sellers <= number_of_items.                                   *)
C7_SellersAtMostItems ==
  NumberSellersReturned =>
    /\ [i \in 1..Len(ret.rows) |-> ret.rows[i].order_id]
         = [i \in 1..Len(get_number_items(data).ret.rows) |->
              get_number_items(data).ret.rows[i].order_id]
    /\ \A i \in 1..Len(ret.rows) :
         (\A j \in 1..Len(data["order_items"]) :
            data["order_items"][j].order_id = ret.rows[i].order_id
              => data["order_items"][j].order_item_id # <<>>)
         => ret.rows[i].number_of_sellers[1] <= NumberOfItems(ret.rows[i].order_id)

(* An order with two items of one seller and an order with one item: one   *)
(* seller each.                                                            *)
C7_Witness ==
  /\ NumberSellersReturned
  /\ Len(ret.rows) = 2
  /\ ret.rows[1].number_of_sellers = <<1>>
  /\ NumberOfItems(ret.rows[1].order_id) = 2
  /\ ret.rows[2].number_of_sellers = <<1>>
  /\ NumberOfItems(ret.rows[2].order_id) = 1

(***************************************************************************)
(* Claims about get_distance_seller_customer, checked under SpecGeo and    *)
(* SpecDist.                                                               *)
(***************************************************************************)
DistanceReturned == call.op = "get_distance_seller_customer" /\ "rows" \in DOMAIN ret

FirstRowOfPrefix(z) ==
  LET rows == data["geolocation"]
      i == CHOOSE i \in 1..Len(rows) :
             /\ rows[i].geolocation_zip_code_prefix = z
             /\ \A j \in 1..(i - 1) : rows[j].geolocation_zip_code_prefix # z
  IN  rows[i]

(* C9: the canonical (lat, lng) of each zip code prefix is the lat and the *)
(* lng of the first geolocation row with that prefix, both from that row,  *)
(* also when that row misses one of them.                                  *)
C9_CanonicalIsFirstRow ==
  DistanceReturned =>
    LET geo == geo_first(data["geolocation"])
    IN  \A i \in 1..Len(geo) :
          LET row == FirstRowOfPrefix(geo[i].geolocation_zip_code_prefix)
          IN  /\ geo[i].geolocation_lat = row.geolocation_lat
              /\ geo[i].geolocation_lng = row.geolocation_lng

(* The rows of table t whose column col holds id. *)
RowsWith(t, col, id) == SelectSeq(data[t], LAMBDA r : r[col] = id)

(* The canonical coordinates of a zip code prefix in the GeoIndex, <<>>    *)
(* when the prefix is not in it or misses its lat or its lng.              *)
Coordinates(z) ==
  LET geo == geo_first(data["geolocation"])
      hit == SelectSeq(geo, LAMBDA g : g.geolocation_zip_code_prefix = z)
  IN  IF hit = <<>> \/ hit[1].geolocation_lat = <<>> \/ hit[1].geolocation_lng = <<>>
        THEN <<>>
        ELSE <<hit[1].geolocation_lat[1], hit[1].geolocation_lng[1]>>

SellerCoordinates(line) ==
  LET s == RowsWith("sellers", "seller_id", line.seller_id)
  IN  IF line.seller_id = <<>> \/ s = <<>> THEN <<>>
      ELSE Coordinates(s[1].seller_zip_code_prefix)

CustomerCoordinates(line) ==
  LET o == RowsWith("orders", "order_id", line.order_id)
      c == IF o = <<>> \/ o[1].customer_id = <<>> THEN <<>>
           ELSE RowsWith("customers", "customer_id", o[1].customer_id)
  IN  IF c = <<>> THEN <<>> ELSE Coordinates(c[1].customer_zip_code_prefix)

(* The item lines of order k whose seller and customer (the rows that the  *)
(* line's seller_id and the order's customer_id name) both have            *)
(* coordinates, and the distance of each, in km.                           *)
LinesWithBothEndpoints(k) ==
  SelectSeq(data["order_items"],
            LAMBDA line : /\ line.order_id = k
                          /\ SellerCoordinates(line) # <<>>
                          /\ CustomerCoordinates(line) # <<>>)

LineDistance(line) ==
  LET s == SellerCoordinates(line)
      c == CustomerCoordinates(line)
  IN  IF s[1] # c[1] /\ s[2] # c[2] THEN 157
      ELSE IF s[1] # c[1] \/ s[2] # c[2] THEN 111
      ELSE 0

(* Whether total / n is the quotient q = <<numerator, denominator>>. *)
IsQuotient(q, total, n) == q[1] * n = total * q[2]

OneRowPerOrderWithMeanOverLines ==
  /\ \A i, j \in 1..Len(ret.rows) : ret.rows[i].order_id = ret.rows[j].order_id => i = j
  /\ \A k \in {OrderKeys[i] : i \in 1..Len(OrderKeys)} :
       LET lines == LinesWithBothEndpoints(k)
           out == SelectSeq(ret.rows, LAMBDA r : r.order_id = k)
       IN  IF lines = <<>>
             THEN out = <<>>
             ELSE /\ Len(out) = 1
                  /\ out[1].distance_seller_customer # <<>>
                  /\ IsQuotient(out[1].distance_seller_customer[1],
                                SeqSum([i \in 1..Len(lines) |-> LineDistance(lines[i])]),
                                Len(lines))

Unique(t, col) ==
  \A i, j \in 1..Len(data[t]) : data[t][i][col] = data[t][j][col] => i = j

(* C10, as stated: one row per order with an item line whose seller and    *)
(* customer both have coordinates; the distance is the mean of the         *)
(* distances of exactly those lines, one sample per line.                  *)
C10_Original == DistanceReturned => OneRowPerOrderWithMeanOverLines

(* C10, amended: the same, provided no seller_id occurs in two rows of     *)
(* sellers, no customer_id in two rows of customers and no order_id in two *)
(* rows of orders.                                                         *)
C10_MeanOverLinesWhenKeysUnique ==
  (/\ DistanceReturned
   /\ Unique("sellers", "seller_id")
   /\ Unique("customers", "customer_id")
   /\ Unique("orders", "order_id"))
  => OneRowPerOrderWithMeanOverLines

(* Unique keys, the first order with two lines of the first seller (0 km)  *)
(* and one of the second (111 km), no line of the second order: the        *)
(* mean 111/3 = 37 is returned.                                            *)
C10_Witness ==
  /\ DistanceReturned
  /\ Unique("sellers", "seller_id")
  /\ Len(LinesWithBothEndpoints(<<"str", "o1">>)) = 3
  /\ Len(ret.rows) = 1
  /\ ret.rows[1].distance_seller_customer = <<(<<37, 1>>)>>

(***************************************************************************)
(* Claims about get_training_data, checked under Spec.                     *)
(***************************************************************************)
TrainingReturned == call.op = "get_training_data" /\ "rows" \in DOMAIN ret

OrderIdsOf(rows) == {rows[i].order_id : i \in 1..Len(rows)}

(* C1: when order_id is unique in orders, get_training_data returns no two *)
(* rows with the same order_id, also when order_reviews holds more than    *)
(* one row of an order.                                                    *)
C1_NoDuplicateOrderId ==
  (TrainingReturned /\ Unique("orders", "order_id")) =>
    \A i, j \in 1..Len(ret.rows) : ret.rows[i].order_id = ret.rows[j].order_id => i = j

(* C2: every row get_training_data returns has no missing value in any     *)
(* column, and its order_id is in the wait-time set (after the delivered   *)
(* filter), the review set, the item-count, seller-count and price/freight *)
(* sets and, when the distance is asked for, the distance set.             *)
C2_CompleteRowsOfEveryFeatureSet ==
  TrainingReturned =>
    \A i \in 1..Len(ret.rows) :
      LET r == ret.rows[i]
      IN  /\ \A c \in DOMAIN r : r[c] # <<>>
          /\ DOMAIN r = wait_time_columns \cup review_columns
               \cup {"number_of_items", "number_of_sellers", "price", "freight_value"}
               \cup (IF call.with_distance_seller_customer
                       THEN {"distance_seller_customer"} ELSE {})
          /\ r.order_id \in OrderIdsOf(get_wait_time(data, call.is_delivered).ret.rows)
          /\ r.order_id \in OrderIdsOf(get_review_score(data).ret.rows)
          /\ r.order_id \in OrderIdsOf(get_number_items(data).ret.rows)
          /\ r.order_id \in OrderIdsOf(get_number_sellers(data).ret.rows)
          /\ r.order_id \in OrderIdsOf(get_price_and_freight(data).ret.rows)
          /\ call.with_distance_seller_customer =>
               r.order_id \in OrderIdsOf(get_distance_seller_customer(data).ret.rows)

(* A call with the distance returned the second order and not the first,   *)
(* which is in every feature set but has no delivery date.                 *)
C2_Witness ==
  /\ TrainingReturned
  /\ call.with_distance_seller_customer
  /\ OrderIdsOf(ret.rows) = {<<"str", "o2">>}
  /\ data["orders"][1].order_delivered_customer_date = <<>>
  /\ <<"str", "o1">> \in OrderIdsOf(get_wait_time(data, call.is_delivered).ret.rows)
  /\ <<"str", "o1">> \in OrderIdsOf(get_review_score(data).ret.rows)
  /\ <<"str", "o1">> \in OrderIdsOf(get_number_items(data).ret.rows)
  /\ <<"str", "o1">> \in OrderIdsOf(get_distance_seller_customer(data).ret.rows)

(* C4: with is_delivered true every row of get_wait_time and of            *)
(* get_training_data has order_status 'delivered'; with is_delivered false *)
(* get_wait_time keeps the orders of every status.                         *)
C4_DeliveredOnlyWhenAsked ==
  /\ (call.op \in {"get_wait_time", "get_training_data"} /\ "rows" \in DOMAIN ret
        /\ call.is_delivered)
     => \A i \in 1..Len(ret.rows) : ret.rows[i].order_status = <<"str", "delivered">>
  /\ (call.op = "get_wait_time" /\ "rows" \in DOMAIN ret /\ ~call.is_delivered)
     => /\ Len(ret.rows) = Len(data["orders"])
        /\ \A i \in 1..Len(ret.rows) :
             /\ ret.rows[i].order_id = data["orders"][i].order_id
             /\ ret.rows[i].order_status = data["orders"][i].order_status

(* get_wait_time(True) on a canceled and a delivered order returned the    *)
(* delivered one alone.                                                    *)
C4_Witness ==
  /\ call.op = "get_wait_time"
  /\ call.is_delivered
  /\ "rows" \in DOMAIN ret
  /\ data["orders"][1].order_status = <<"str", "canceled">>
  /\ Len(ret.rows) = 1
  /\ ret.rows[1].order_id = <<"str", "o2">>

(* C8: no call of a get_* method changes a table of self.data, and a call  *)
(* that repeats the call before it returns what that call returned.        *)
C8_NoMutationSameOutput ==
  [][/\ data' = data
     /\ call' = call => ret' = ret]_vars

(* get_training_data(False, True) returned a row for each order. *)
C8_Witness ==
  /\ TrainingReturned
  /\ ~call.is_delivered
  /\ call.with_distance_seller_customer
  /\ Len(ret.rows) = 2

====
